---- MODULE Spec2Model ----
(***************************************************************************)
(* Daily statistics aggregation of the point-of-sale backend:              *)
(* Stats.updateStats / Stats.getDashboardStats (config/database.js) and    *)
(* the POST /api/orders handler that calls them (server.js).               *)
(***************************************************************************)
EXTENDS Integers, Sequences, FiniteSets, TLC

(***************************************************************************)
(* Strings.  A product name is a JS string; its text is the sequence of    *)
(* its characters, so that toLowerCase() and includes() are computed.      *)
(***************************************************************************)
NameText ==
       ("Sizzling Pork Sisig" :> <<"S","i","z","z","l","i","n","g"," ","P","o","r","k"," ","S","i","s","i","g">>)
    @@ ("Cafe Latte Tall" :> <<"C","a","f","e"," ","L","a","t","t","e"," ","T","a","l","l">>)
    @@ ("Plain Rice" :> <<"P","l","a","i","n"," ","R","i","c","e">>)
    @@ ("Chicken Adobo" :> <<"C","h","i","c","k","e","n"," ","A","d","o","b","o">>)
    @@ ("Sisig" :> <<"S","i","s","i","g">>)
    @@ ("Liempo" :> <<"L","i","e","m","p","o">>)
    @@ ("Pancit Canton" :> <<"P","a","n","c","i","t"," ","C","a","n","t","o","n">>)
    @@ ("Soda" :> <<"S","o","d","a">>)
    @@ ("Red Tea" :> <<"R","e","d"," ","T","e","a">>)
    @@ ("Red Tea Milk Tea" :> <<"R","e","d"," ","T","e","a"," ","M","i","l","k"," ","T","e","a">>)
    @@ ("Mocha Frappe" :> <<"M","o","c","h","a"," ","F","r","a","p","p","e">>)
    @@ ("Iced Coffee" :> <<"I","c","e","d"," ","C","o","f","f","e","e">>)
    @@ ("Porkchop" :> <<"P","o","r","k","c","h","o","p">>)

UpperToLower ==
       ("A" :> "a") @@ ("B" :> "b") @@ ("C" :> "c") @@ ("D" :> "d") @@ ("E" :> "e") @@ ("F" :> "f")
    @@ ("G" :> "g") @@ ("H" :> "h") @@ ("I" :> "i") @@ ("J" :> "j") @@ ("K" :> "k") @@ ("L" :> "l")
    @@ ("M" :> "m") @@ ("N" :> "n") @@ ("O" :> "o") @@ ("P" :> "p") @@ ("Q" :> "q") @@ ("R" :> "r")
    @@ ("S" :> "s") @@ ("T" :> "t") @@ ("U" :> "u") @@ ("V" :> "v") @@ ("W" :> "w") @@ ("X" :> "x")
    @@ ("Y" :> "y") @@ ("Z" :> "z")

\* String.prototype.toLowerCase
toLowerCase(s) ==
    [i \in DOMAIN s |-> IF s[i] \in DOMAIN UpperToLower THEN UpperToLower[s[i]] ELSE s[i]]

\* String.prototype.includes
includes(s, kw) ==
    \E i \in 1..(Len(s) - Len(kw) + 1) : \A j \in 1..Len(kw) : s[i + j - 1] = kw[j]

Buckets == {"Rice", "Sizzling", "Party", "Drink", "Cafe", "Milk", "Frappe"}

\* the value for "no branch of the if / else-if chain was taken"
NoBucket == "none"

\* a classifier that tests the Sizzling keywords before the Rice keywords
CategoryOfSizzlingFirst(name) ==
    LET itemName == toLowerCase(NameText[name]) IN
    IF \/ includes(itemName, <<"s","i","z","z","l","i","n","g">>)
       \/ includes(itemName, <<"s","i","s","i","g">>)
       \/ includes(itemName, <<"l","i","e","m","p","o">>)
       \/ includes(itemName, <<"p","o","r","k","c","h","o","p">>)
    THEN "Sizzling"
    ELSE IF \/ includes(itemName, <<"b","u","l","g","o","g","i">>)
            \/ includes(itemName, <<"l","e","c","h","o","n">>)
            \/ includes(itemName, <<"c","h","i","c","k","e","n">>)
            \/ includes(itemName, <<"a","d","o","b","o">>)
            \/ includes(itemName, <<"s","h","a","n","g","h","a","i">>)
            \/ includes(itemName, <<"f","i","s","h">>)
            \/ includes(itemName, <<"d","o","r","y">>)
            \/ includes(itemName, <<"p","o","r","k">>)
    THEN "Rice"
    ELSE IF \/ includes(itemName, <<"p","a","n","c","i","t">>)
            \/ includes(itemName, <<"s","p","a","g","h","e","t","t","i">>)
            \/ includes(itemName, <<"p","a","r","t","y">>)
    THEN "Party"
    ELSE IF \/ includes(itemName, <<"l","e","m","o","n","a","d","e">>)
            \/ includes(itemName, <<"s","o","d","a">>)
            \/ (includes(itemName, <<"r","e","d"," ","t","e","a">>) /\ ~includes(itemName, <<"m","i","l","k">>))
    THEN "Drink"
    ELSE IF \/ includes(itemName, <<"c","a","f","e">>)
            \/ includes(itemName, <<"a","m","e","r","i","c","a","n","o">>)
            \/ includes(itemName, <<"l","a","t","t","e">>)
            \/ includes(itemName, <<"m","a","c","c","h","i","a","t","o">>)
            \/ includes(itemName, <<"c","o","f","f","e","e">>)
    THEN "Cafe"
    ELSE IF \/ includes(itemName, <<"m","i","l","k"," ","t","e","a">>)
            \/ includes(itemName, <<"m","a","t","c","h","a"," ","g","r","e","e","n"," ","t","e","a">>)
    THEN "Milk"
    ELSE IF \/ includes(itemName, <<"f","r","a","p","p","e">>)
            \/ includes(itemName, <<"c","o","o","k","i","e","s"," ","&"," ","c","r","e","a","m">>)
    THEN "Frappe"
    ELSE NoBucket

\* the if / else-if chain of the category forEach: the bucket one line item is added to
CategoryOf(name) ==
    LET itemName == toLowerCase(NameText[name]) IN
    IF \/ includes(itemName, <<"b","u","l","g","o","g","i">>)
       \/ includes(itemName, <<"l","e","c","h","o","n">>)
       \/ includes(itemName, <<"c","h","i","c","k","e","n">>)
       \/ includes(itemName, <<"a","d","o","b","o">>)
       \/ includes(itemName, <<"s","h","a","n","g","h","a","i">>)
       \/ includes(itemName, <<"f","i","s","h">>)
       \/ includes(itemName, <<"d","o","r","y">>)
       \/ includes(itemName, <<"p","o","r","k">>)
    THEN "Rice"
    ELSE IF \/ includes(itemName, <<"s","i","z","z","l","i","n","g">>)
            \/ includes(itemName, <<"s","i","s","i","g">>)
            \/ includes(itemName, <<"l","i","e","m","p","o">>)
            \/ includes(itemName, <<"p","o","r","k","c","h","o","p">>)
    THEN "Sizzling"
    ELSE IF \/ includes(itemName, <<"p","a","n","c","i","t">>)
            \/ includes(itemName, <<"s","p","a","g","h","e","t","t","i">>)
            \/ includes(itemName, <<"p","a","r","t","y">>)
    THEN "Party"
    ELSE IF \/ includes(itemName, <<"l","e","m","o","n","a","d","e">>)
            \/ includes(itemName, <<"s","o","d","a">>)
            \/ (includes(itemName, <<"r","e","d"," ","t","e","a">>) /\ ~includes(itemName, <<"m","i","l","k">>))
    THEN "Drink"
    ELSE IF \/ includes(itemName, <<"c","a","f","e">>)
            \/ includes(itemName, <<"a","m","e","r","i","c","a","n","o">>)
            \/ includes(itemName, <<"l","a","t","t","e">>)
            \/ includes(itemName, <<"m","a","c","c","h","i","a","t","o">>)
            \/ includes(itemName, <<"c","o","f","f","e","e">>)
    THEN "Cafe"
    ELSE IF \/ includes(itemName, <<"m","i","l","k"," ","t","e","a">>)
            \/ includes(itemName, <<"m","a","t","c","h","a"," ","g","r","e","e","n"," ","t","e","a">>)
    THEN "Milk"
    ELSE IF \/ includes(itemName, <<"f","r","a","p","p","e">>)
            \/ includes(itemName, <<"c","o","o","k","i","e","s"," ","&"," ","c","r","e","a","m">>)
    THEN "Frappe"
    ELSE NoBucket

(***************************************************************************)
(* Bounds of the model.                                                    *)
(***************************************************************************)
\* calendar days are 0..MaxDay
MaxDay == 2
\* number of POST /api/orders requests received after start-up
MaxOrders == 2

Days == 0..MaxDay
Hours == 0..23
\* the hours of the day at which the modelled requests arrive
OrderHours == {9, 14}

\* topProducts.slice(0, 10)
TopN == 10

(***************************************************************************)
(* The Stats document.                                                     *)
(***************************************************************************)
\* schema defaults of a Stats document (every path but date).  lastUpdated
\* and the timestamps option hold wall-clock times that are written on
\* every save and read by no operation; they are not part of the state
StatsDefaults(date) ==
    [date           |-> date,
     totalOrders    |-> 0,
     ordersToday    |-> 0,
     itemsSold      |-> 0,
     itemsSoldToday |-> 0,
     dineInOrders   |-> 0,
     takeoutOrders  |-> 0,
     categoryStats  |-> [b \in Buckets |-> 0],
     topProducts    |-> << >>,
     hourlyStats    |-> [h \in Hours |-> 0]]

\* a day record that also copies hourlyStats and topProducts from yesterday
NewStatsCarryAll(today, yesterdayStats) ==
    IF yesterdayStats = << >>
    THEN StatsDefaults(today)
    ELSE [yesterdayStats[1] EXCEPT !.date = today, !.ordersToday = 0,
                                   !.itemsSoldToday = 0]

\* a day record that starts every counter at zero
NewStatsNoCarry(today, yesterdayStats) == StatsDefaults(today)

\* new this({date: today, totalOrders: yesterdayStats ? ... : 0, ...});
\* yesterdayStats is << >> (null) or << doc >>
NewStats(today, yesterdayStats) ==
    LET y == yesterdayStats[1] IN
    [StatsDefaults(today) EXCEPT
        !.totalOrders   = IF yesterdayStats # << >> THEN y.totalOrders ELSE 0,
        !.itemsSold     = IF yesterdayStats # << >> THEN y.itemsSold ELSE 0,
        !.dineInOrders  = IF yesterdayStats # << >> THEN y.dineInOrders ELSE 0,
        !.takeoutOrders = IF yesterdayStats # << >> THEN y.takeoutOrders ELSE 0,
        !.categoryStats = IF yesterdayStats # << >> THEN y.categoryStats
                          ELSE [b \in Buckets |-> 0]]

\* CategoryOf, evaluated once for every name of the menu
Category == [name \in DOMAIN NameText |-> CategoryOf(name)]

\* orderData.items.reduce((sum, item) => sum + item.quantity, 0)
RECURSIVE SumQuantity(_)
SumQuantity(items) ==
    IF items = << >> THEN 0
    ELSE SumQuantity(SubSeq(items, 1, Len(items) - 1)) + items[Len(items)].quantity

\* the first forEach: each item adds its quantity to the bucket of its name
RECURSIVE AddCategories(_, _)
AddCategories(categoryStats, items) ==
    IF items = << >> THEN categoryStats
    ELSE LET item == Head(items)
             b    == Category[item.name]
         IN  AddCategories(
                 IF b = NoBucket THEN categoryStats
                 ELSE [categoryStats EXCEPT ![b] = @ + item.quantity],
                 Tail(items))

\* a lookup that misses the entry pushed last
FindProductNotLast(topProducts, name) ==
    IF \E i \in 1..(Len(topProducts) - 1) : topProducts[i].name = name
    THEN CHOOSE i \in 1..(Len(topProducts) - 1) :
            /\ topProducts[i].name = name
            /\ \A j \in 1..(i - 1) : topProducts[j].name # name
    ELSE 0

\* stats.topProducts.find(p => p.name === item.name): index of the first
\* entry with that name, 0 when there is none
FindProduct(topProducts, name) ==
    IF \E i \in DOMAIN topProducts : topProducts[i].name = name
    THEN CHOOSE i \in DOMAIN topProducts :
            /\ topProducts[i].name = name
            /\ \A j \in 1..(i - 1) : topProducts[j].name # name
    ELSE 0

\* an upsert that replaces the quantity of an existing entry
RECURSIVE UpsertProductsReplace(_, _)
UpsertProductsReplace(topProducts, items) ==
    IF items = << >> THEN topProducts
    ELSE LET item == Head(items)
             i    == FindProduct(topProducts, item.name)
         IN  UpsertProductsReplace(
                 IF i # 0
                 THEN [topProducts EXCEPT ![i].quantity = item.quantity]
                 ELSE Append(topProducts,
                             [name |-> item.name, quantity |-> item.quantity]),
                 Tail(items))

\* the second forEach: upsert of each item into topProducts by exact name
RECURSIVE UpsertProducts(_, _)
UpsertProducts(topProducts, items) ==
    IF items = << >> THEN topProducts
    ELSE LET item == Head(items)
             i    == FindProduct(topProducts, item.name)
         IN  UpsertProducts(
                 IF i # 0
                 THEN [topProducts EXCEPT ![i].quantity = @ + item.quantity]
                 ELSE Append(topProducts,
                             [name |-> item.name, quantity |-> item.quantity]),
                 Tail(items))

\* insertion of e behind every entry whose quantity is >= e.quantity
InsertDesc(sorted, e) ==
    LET k == Cardinality({i \in DOMAIN sorted : sorted[i].quantity >= e.quantity})
    IN  SubSeq(sorted, 1, k) \o << e >> \o SubSeq(sorted, k + 1, Len(sorted))

\* a sort that leaves the list as it is
SortDescNone(topProducts) == topProducts

\* stats.topProducts.sort((a, b) => b.quantity - a.quantity): stable,
\* descending by quantity
RECURSIVE SortDesc(_)
SortDesc(topProducts) ==
    IF topProducts = << >> THEN << >>
    ELSE InsertDesc(SortDesc(SubSeq(topProducts, 1, Len(topProducts) - 1)),
                    topProducts[Len(topProducts)])

\* stats.topProducts.slice(0, 10)
Slice(topProducts) ==
    SubSeq(topProducts, 1, IF Len(topProducts) < TopN THEN Len(topProducts) ELSE TopN)

\* an update that counts the order in totalOrders only
ApplyOrderNoToday(stats, orderData, hour) ==
    LET itemsInOrder == SumQuantity(orderData.items) IN
    [stats EXCEPT
        !.totalOrders    = @ + 1,
        !.itemsSold      = @ + itemsInOrder,
        !.itemsSoldToday = @ + itemsInOrder,
        !.dineInOrders   = IF orderData.type = "Dine In" THEN @ + 1 ELSE @,
        !.takeoutOrders  = IF orderData.type = "Take Out" THEN @ + 1 ELSE @,
        !.hourlyStats    = [@ EXCEPT ![hour] = @ + 1],
        !.categoryStats  = AddCategories(@, orderData.items),
        !.topProducts    = Slice(SortDesc(UpsertProducts(@, orderData.items)))]

\* an update that adds the number of line items instead of their quantities
ApplyOrderCountLines(stats, orderData, hour) ==
    LET itemsInOrder == Len(orderData.items) IN
    [stats EXCEPT
        !.totalOrders    = @ + 1,
        !.ordersToday    = @ + 1,
        !.itemsSold      = @ + itemsInOrder,
        !.itemsSoldToday = @ + itemsInOrder,
        !.dineInOrders   = IF orderData.type = "Dine In" THEN @ + 1 ELSE @,
        !.takeoutOrders  = IF orderData.type = "Take Out" THEN @ + 1 ELSE @,
        !.hourlyStats    = [@ EXCEPT ![hour] = @ + 1],
        !.categoryStats  = AddCategories(@, orderData.items),
        !.topProducts    = Slice(SortDesc(UpsertProducts(@, orderData.items)))]

\* orderData.type, "undefined" when the payload has no type
TypeOf(orderData) ==
    IF "type" \in DOMAIN orderData THEN orderData.type ELSE "undefined"

\* an update that counts every order that is not "Dine In" as take-out
ApplyOrderElseTakeout(stats, orderData, hour) ==
    LET itemsInOrder == SumQuantity(orderData.items) IN
    [stats EXCEPT
        !.totalOrders    = @ + 1,
        !.ordersToday    = @ + 1,
        !.itemsSold      = @ + itemsInOrder,
        !.itemsSoldToday = @ + itemsInOrder,
        !.dineInOrders   = IF TypeOf(orderData) = "Dine In" THEN @ + 1 ELSE @,
        !.takeoutOrders  = IF TypeOf(orderData) = "Dine In" THEN @ ELSE @ + 1,
        !.hourlyStats    = [@ EXCEPT ![hour] = @ + 1],
        !.categoryStats  = AddCategories(@, orderData.items),
        !.topProducts    = Slice(SortDesc(UpsertProducts(@, orderData.items)))]

\* the synchronous part of updateStats between the reads and stats.save():
\* the in-memory document after the order has been applied to it
ApplyOrder(stats, orderData, hour) ==
    LET itemsInOrder == SumQuantity(orderData.items) IN
    [stats EXCEPT
        !.totalOrders    = @ + 1,
        !.ordersToday    = @ + 1,
        !.itemsSold      = @ + itemsInOrder,
        !.itemsSoldToday = @ + itemsInOrder,
        !.dineInOrders   = IF TypeOf(orderData) = "Dine In" THEN @ + 1 ELSE @,
        !.takeoutOrders  = IF TypeOf(orderData) = "Dine In" THEN @
                           ELSE IF TypeOf(orderData) = "Take Out" THEN @ + 1 ELSE @,
        !.hourlyStats    = [@ EXCEPT ![hour] = @ + 1],
        !.categoryStats  = AddCategories(@, orderData.items),
        !.topProducts    = Slice(SortDesc(UpsertProducts(@, orderData.items)))]

(***************************************************************************)
(* Request bodies.  A field the client left out is a field the record      *)
(* does not have.                                                          *)
(***************************************************************************)
Item(n, q) == [name |-> n, quantity |-> q]

\* the line-item lists of the modelled orders
ItemLists ==
    { << Item("Cafe Latte Tall", 2), Item("Plain Rice", 1) >>,
      << Item("Sizzling Pork Sisig", 2), Item("Sizzling Pork Sisig", 2) >>,
      << Item("Sizzling Pork Sisig", 1), Item("Red Tea Milk Tea", 1) >> }

\* the type is one of the two counted ones, some other string, or left out
ValidBodies ==
    {[items |-> l, total |-> 100, type |-> t] : l \in ItemLists, t \in {"Dine In", "Take Out"}}
    \cup {[items |-> << Item("Sizzling Pork Sisig", 1), Item("Red Tea Milk Tea", 1) >>,
           total |-> 100, type |-> "Delivery"]}
    \cup {[items |-> l, total |-> 100] : l \in ItemLists}

\* bodies that pass the handler's validation with a malformed line item
MalformedBodies ==
    { [items |-> << [name |-> "Plain Rice"] >>, total |-> 100, type |-> "Dine In"],
      [items |-> << [quantity |-> 1] >>, total |-> 100, type |-> "Take Out"] }

\* bodies the handler rejects with status 400
RejectedBodies ==
    { [total |-> 100, type |-> "Dine In"],
      [items |-> << >>, total |-> 100, type |-> "Dine In"],
      [items |-> << Item("Plain Rice", 1) >>, type |-> "Dine In"],
      [items |-> << Item("Plain Rice", 1) >>, total |-> 0, type |-> "Dine In"] }

Bodies == ValidBodies \cup MalformedBodies \cup RejectedBodies

Has(r, f) == f \in DOMAIN r

\* !orderData.items || !orderData.items.length
NoItems(body) == ~Has(body, "items") \/ Len(body.items) = 0

\* !orderData.total
NoTotal(body) == ~Has(body, "total") \/ body.total = 0

\* a handler whose default type is "Take Out"
DefaultTypeTakeOut(body) ==
    IF Has(body, "type") /\ body.type # "" THEN body
    ELSE [f \in DOMAIN body \cup {"type"} |->
             IF f = "type" THEN "Take Out" ELSE body[f]]

\* if (!orderData.type) orderData.type = "Dine In"
DefaultType(body) ==
    IF Has(body, "type") /\ body.type # "" THEN body
    ELSE [f \in DOMAIN body \cup {"type"} |->
             IF f = "type" THEN "Dine In" ELSE body[f]]

\* item.name.toLowerCase() throws a TypeError on an item without a name
ThrowsTypeError(orderData) ==
    \E i \in DOMAIN orderData.items : ~Has(orderData.items[i], "name")

\* a missing quantity makes the sums NaN, which stats.save() rejects
FailsValidation(orderData) ==
    \E i \in DOMAIN orderData.items : ~Has(orderData.items[i], "quantity")

(***************************************************************************)
(* State.                                                                  *)
(***************************************************************************)
\* request slots of the server; Clients are the slots used when requests
\* are served one at a time
Procs == {1, 2}
Clients == {1}

VARIABLES
    store,       \* the Stats collection: day key -> document (unique index on date)
    orders,      \* the Order collection: the stored type of order 1, 2, ... (_id = index)
    clock,       \* the current calendar day
    received,    \* number of requests received so far
    processed,   \* number of updateStats calls that saved their document
    pc,          \* per request: the await the handler is suspended at
    req,         \* per request: orderData (req.body, type defaulted)
    savedOrder,  \* per request: savedOrder._id, 0 before the order is saved
    today,       \* per request: the day key computed on entry to updateStats
    loaded,      \* per request: the document as read or as constructed
    stats,       \* per request: the in-memory document stats.save() is called on
    isNew,       \* per request: stats was built by new this(...)
    statsError,  \* per request: the inner catch logged a stats update error
    res,         \* per request: the response sent
    dash,        \* per request: the response of GET /api/stats
    inserted,    \* per day key: number of Stats documents inserted with that date
    applied      \* per day key and product: quantity of the orders written to the record

vars == << store, orders, clock, received, processed, pc, req, savedOrder,
           today, loaded, stats, isNew, statsError, res, dash, inserted, applied >>

\* what the steps of POST /api/orders before stats.save() leave alone
aside == << dash, inserted, applied >>

NoReq == [items |-> << >>]
NoDoc == << >>
NoRes == [status |-> 0, success |-> FALSE, orderId |-> 0]
NoDash == [status |-> 0]

\* the orders already processed, on day 0, when the store starts non-empty
SeedOrders ==
    << [items |-> << Item("Chicken Adobo", 3), Item("Sisig", 3) >>, type |-> "Dine In"],
       [items |-> << Item("Liempo", 3), Item("Pancit Canton", 3) >>, type |-> "Take Out"],
       [items |-> << Item("Soda", 2), Item("Red Tea", 2) >>, type |-> "Dine In"],
       [items |-> << Item("Red Tea Milk Tea", 2), Item("Mocha Frappe", 2) >>, type |-> "Delivery"],
       [items |-> << Item("Iced Coffee", 2), Item("Porkchop", 2) >>, type |-> "Take Out"] >>

RECURSIVE SeedStats(_)
SeedStats(k) ==
    IF k = 0 THEN NewStats(0, << >>)
    ELSE ApplyOrder(SeedStats(k - 1), SeedOrders[k], 9)

EmptyStore == [d \in {} |-> NoDoc]
SeedStore == (0 :> SeedStats(Len(SeedOrders)))

\* quantity of product name in a list of line items
Ordered(items, name) ==
    SumQuantity(SelectSeq(items, LAMBDA item : item.name = name))

\* the products of the orders already processed on day 0
SeedApplied ==
    [name \in DOMAIN NameText |->
        Ordered(SeedOrders[1].items \o SeedOrders[2].items \o SeedOrders[3].items
                \o SeedOrders[4].items \o SeedOrders[5].items, name)]

\* this.findOne({ date: d }): << >> for null, << doc >> otherwise
findOne(d) == IF d \in DOMAIN store THEN << store[d] >> ELSE << >>

(***************************************************************************)
(* Initial state: the server has just started, no request is in flight;    *)
(* the database is empty or holds the day-0 record of earlier orders.      *)
(***************************************************************************)
Init ==
    /\ \E seeded \in BOOLEAN :
          /\ store = IF seeded THEN SeedStore ELSE EmptyStore
          /\ orders = IF seeded THEN [k \in DOMAIN SeedOrders |-> SeedOrders[k].type]
                      ELSE << >>
          /\ processed = IF seeded THEN Len(SeedOrders) ELSE 0
          /\ inserted = [d \in Days |-> IF seeded /\ d = 0 THEN 1 ELSE 0]
          /\ applied = [d \in Days |-> [name \in DOMAIN NameText |->
                            IF seeded /\ d = 0 THEN SeedApplied[name] ELSE 0]]
    /\ clock = 0
    /\ received = 0
    /\ pc = [p \in Procs |-> "idle"]
    /\ req = [p \in Procs |-> NoReq]
    /\ savedOrder = [p \in Procs |-> 0]
    /\ today = [p \in Procs |-> 0]
    /\ loaded = [p \in Procs |-> NoDoc]
    /\ stats = [p \in Procs |-> NoDoc]
    /\ isNew = [p \in Procs |-> FALSE]
    /\ statsError = [p \in Procs |-> FALSE]
    /\ res = [p \in Procs |-> NoRes]
    /\ dash = [p \in Procs |-> NoDash]

\* the request is over: its locals are dropped, its response stays
Finish(p, response) ==
    /\ pc' = [pc EXCEPT ![p] = "done"]
    /\ res' = [res EXCEPT ![p] = response]
    /\ req' = [req EXCEPT ![p] = NoReq]
    /\ loaded' = [loaded EXCEPT ![p] = NoDoc]
    /\ stats' = [stats EXCEPT ![p] = NoDoc]
    /\ isNew' = [isNew EXCEPT ![p] = FALSE]

\* res.json({ success: true, orderId: savedOrder._id, ... })
RespondSuccess(p, logged) ==
    /\ statsError' = [statsError EXCEPT ![p] = logged]
    /\ Finish(p, [status |-> 200, success |-> TRUE, orderId |-> savedOrder[p]])

\* a handler without the inner try / catch: a stats error reaches the outer catch
RespondAfterStatsNoCatch(p, threw) ==
    /\ statsError' = [statsError EXCEPT ![p] = threw]
    /\ Finish(p, IF threw THEN [status |-> 500, success |-> FALSE, orderId |-> 0]
                 ELSE [status |-> 200, success |-> TRUE, orderId |-> savedOrder[p]])

\* the end of the handler after Stats.updateStats returned or threw:
\* try { await Stats.updateStats(orderData) } catch (statsError) { log }, then res.json
RespondAfterStats(p, threw) == RespondSuccess(p, threw)

\* POST /api/orders up to await order.save(): validation and the type default
Receive(p, body) ==
    /\ pc[p] \in {"idle", "done"}
    /\ received < MaxOrders
    /\ received' = received + 1
    /\ savedOrder' = [savedOrder EXCEPT ![p] = 0]
    /\ statsError' = [statsError EXCEPT ![p] = FALSE]
    /\ IF NoItems(body) \/ NoTotal(body)
       THEN /\ pc' = [pc EXCEPT ![p] = "done"]
            /\ res' = [res EXCEPT ![p] = [status |-> 400, success |-> FALSE, orderId |-> 0]]
            /\ req' = [req EXCEPT ![p] = NoReq]
       ELSE /\ pc' = [pc EXCEPT ![p] = "saveOrder"]
            /\ res' = [res EXCEPT ![p] = NoRes]
            /\ req' = [req EXCEPT ![p] = DefaultType(body)]
    /\ dash' = [dash EXCEPT ![p] = NoDash]
    /\ UNCHANGED << store, orders, clock, processed, today, loaded, stats, isNew,
                    inserted, applied >>

\* a handler that goes on to updateStats when order.save() rejects
SaveOrderAlwaysStats(p, ok) ==
    /\ pc[p] = "saveOrder"
    /\ orders' = IF ok THEN Append(orders, req[p].type) ELSE orders
    /\ savedOrder' = [savedOrder EXCEPT ![p] = IF ok THEN Len(orders) + 1 ELSE 0]
    /\ today' = [today EXCEPT ![p] = clock]
    /\ pc' = [pc EXCEPT ![p] = "findToday"]
    /\ UNCHANGED << req, loaded, stats, isNew, res >>
    /\ UNCHANGED << store, clock, received, processed, statsError, aside >>

\* await order.save() and, when it resolves, the entry to updateStats
\* (today is computed, findOne({date: today}) is issued); when it rejects,
\* the outer catch answers 500
SaveOrder(p, ok) ==
    /\ pc[p] = "saveOrder"
    /\ IF ok
       THEN /\ orders' = Append(orders, req[p].type)
            /\ savedOrder' = [savedOrder EXCEPT ![p] = Len(orders) + 1]
            /\ today' = [today EXCEPT ![p] = clock]
            /\ pc' = [pc EXCEPT ![p] = "findToday"]
            /\ UNCHANGED << req, loaded, stats, isNew, res >>
       ELSE /\ Finish(p, [status |-> 500, success |-> FALSE, orderId |-> 0])
            /\ UNCHANGED << orders, savedOrder, today >>
    /\ UNCHANGED << store, clock, received, processed, statsError, aside >>

\* updateStats from the document in hand to the call of stats.save():
\* the hour is read, the order is applied (lines 249-308)
Compute(p, doc, created) ==
    \E hour \in OrderHours :
        IF ThrowsTypeError(req[p])
        THEN RespondAfterStats(p, TRUE)
        ELSE /\ loaded' = [loaded EXCEPT ![p] = doc]
             /\ stats' = [stats EXCEPT ![p] =
                            IF FailsValidation(req[p]) THEN doc
                            ELSE ApplyOrder(doc, req[p], hour)]
             /\ isNew' = [isNew EXCEPT ![p] = created]
             /\ pc' = [pc EXCEPT ![p] = "saveStats"]
             /\ UNCHANGED << req, statsError, res >>

\* let stats = await this.findOne({ date: today })
FindToday(p, dbOk) ==
    /\ pc[p] = "findToday"
    /\ IF ~dbOk
       THEN RespondAfterStats(p, TRUE)
       ELSE IF findOne(today[p]) # << >>
       THEN Compute(p, findOne(today[p])[1], FALSE)
       ELSE /\ pc' = [pc EXCEPT ![p] = "findYesterday"]
            /\ UNCHANGED << req, loaded, stats, isNew, statsError, res >>
    /\ UNCHANGED << store, orders, clock, received, processed, savedOrder, today, aside >>

\* const yesterdayStats = await this.findOne({ date: yesterday });
\* stats = new this({...})
FindYesterday(p, dbOk) ==
    /\ pc[p] = "findYesterday"
    /\ IF ~dbOk
       THEN RespondAfterStats(p, TRUE)
       ELSE Compute(p, NewStats(today[p], findOne(today[p] - 1)), TRUE)
    /\ UNCHANGED << store, orders, clock, received, processed, savedOrder, today, aside >>

\* an update that adds this call's increments to the stored counters
SetModifiedInc(current, old, new) ==
    LET add(f) == current[f] + (new[f] - old[f]) IN
    [date           |-> current.date,
     totalOrders    |-> add("totalOrders"),
     ordersToday    |-> add("ordersToday"),
     itemsSold      |-> add("itemsSold"),
     itemsSoldToday |-> add("itemsSoldToday"),
     dineInOrders   |-> add("dineInOrders"),
     takeoutOrders  |-> add("takeoutOrders"),
     categoryStats  |-> [b \in Buckets |->
                            current.categoryStats[b]
                            + (new.categoryStats[b] - old.categoryStats[b])],
     topProducts    |-> new.topProducts,
     hourlyStats    |-> [h \in Hours |->
                            current.hourlyStats[h]
                            + (new.hourlyStats[h] - old.hourlyStats[h])]]

\* what an update of an existing document writes: $set of the paths this
\* call changed, every other path keeps its stored value
SetModified(current, old, new) ==
    LET pick(f) == IF new[f] # old[f] THEN new[f] ELSE current[f] IN
    [date           |-> current.date,
     totalOrders    |-> pick("totalOrders"),
     ordersToday    |-> pick("ordersToday"),
     itemsSold      |-> pick("itemsSold"),
     itemsSoldToday |-> pick("itemsSoldToday"),
     dineInOrders   |-> pick("dineInOrders"),
     takeoutOrders  |-> pick("takeoutOrders"),
     categoryStats  |-> [b \in Buckets |->
                            IF new.categoryStats[b] # old.categoryStats[b]
                            THEN new.categoryStats[b] ELSE current.categoryStats[b]],
     topProducts    |-> new.topProducts,
     hourlyStats    |-> [h \in Hours |->
                            IF new.hourlyStats[h] # old.hourlyStats[h]
                            THEN new.hourlyStats[h] ELSE current.hourlyStats[h]]]

\* the stored document is no longer the one request p loaded: another save
\* came in between
Stale(p) == ~isNew[p] /\ today[p] \in DOMAIN store /\ store[today[p]] # loaded[p]

\* a save whose insert ignores the uniqueness of the date
SaveStatsNoUnique(p, dbOk) ==
    /\ pc[p] = "saveStats"
    /\ \E versioned \in BOOLEAN :
        IF \/ ~dbOk
           \/ FailsValidation(req[p])
           \/ (versioned /\ Stale(p))
        THEN /\ RespondAfterStats(p, TRUE)
             /\ UNCHANGED << store, processed, inserted, applied >>
        ELSE /\ store' = IF isNew[p]
                         THEN (today[p] :> stats[p]) @@ store
                         ELSE [store EXCEPT ![today[p]] =
                                  SetModified(@, loaded[p], stats[p])]
             /\ inserted' = IF isNew[p] THEN [inserted EXCEPT ![today[p]] = @ + 1]
                            ELSE inserted
             /\ applied' = [applied EXCEPT ![today[p]] =
                               [name \in DOMAIN NameText |->
                                   @[name] + Ordered(req[p].items, name)]]
             /\ processed' = processed + 1
             /\ RespondAfterStats(p, FALSE)
    /\ UNCHANGED << orders, clock, received, savedOrder, today, dash >>

\* a save that writes the document before it reports a failure
SaveStatsWriteFirst(p, dbOk) ==
    /\ pc[p] = "saveStats"
    /\ \E versioned \in BOOLEAN :
        IF \/ (isNew[p] /\ today[p] \in DOMAIN store)
           \/ (versioned /\ Stale(p))
        THEN /\ RespondAfterStats(p, TRUE)
             /\ UNCHANGED << store, processed, inserted, applied >>
        ELSE /\ store' = IF isNew[p]
                         THEN (today[p] :> stats[p]) @@ store
                         ELSE [store EXCEPT ![today[p]] =
                                  SetModified(@, loaded[p], stats[p])]
             /\ inserted' = IF isNew[p] THEN [inserted EXCEPT ![today[p]] = @ + 1]
                            ELSE inserted
             /\ applied' = [applied EXCEPT ![today[p]] =
                               [name \in DOMAIN NameText |->
                                   @[name] + Ordered(req[p].items, name)]]
             /\ processed' = processed + 1
             /\ RespondAfterStats(p, ~dbOk \/ FailsValidation(req[p]))
    /\ UNCHANGED << orders, clock, received, savedOrder, today, dash >>

\* await stats.save() and the rest of the handler: validation, then an
\* insert (new document, unique date) or an update (loaded document).  The
\* update of a document that changed since it was loaded either overwrites
\* the paths it sets or, when the library checks the document version, is
\* rejected with a VersionError.
SaveStats(p, dbOk) ==
    /\ pc[p] = "saveStats"
    /\ \E versioned \in BOOLEAN :
        IF \/ ~dbOk
           \/ FailsValidation(req[p])
           \/ (isNew[p] /\ today[p] \in DOMAIN store)
           \/ (versioned /\ Stale(p))
        THEN /\ RespondAfterStats(p, TRUE)
             /\ UNCHANGED << store, processed, inserted, applied >>
        ELSE /\ store' = IF isNew[p]
                         THEN (today[p] :> stats[p]) @@ store
                         ELSE [store EXCEPT ![today[p]] =
                                  SetModified(@, loaded[p], stats[p])]
             /\ inserted' = IF isNew[p] THEN [inserted EXCEPT ![today[p]] = @ + 1]
                            ELSE inserted
             /\ applied' = [applied EXCEPT ![today[p]] =
                               [name \in DOMAIN NameText |->
                                   @[name] + Ordered(req[p].items, name)]]
             /\ processed' = processed + 1
             /\ RespondAfterStats(p, FALSE)
    /\ UNCHANGED << orders, clock, received, savedOrder, today, dash >>

\* midnight passes
Tick ==
    /\ clock < MaxDay
    /\ clock' = clock + 1
    /\ UNCHANGED << store, orders, received, processed, pc, req, savedOrder,
                    today, loaded, stats, isNew, statsError, res, aside >>

\* the steps of request p
Step(p) ==
    \/ \E body \in Bodies : Receive(p, body)
    \/ \E ok \in BOOLEAN : SaveOrder(p, ok)
    \/ \E dbOk \in BOOLEAN : FindToday(p, dbOk)
    \/ \E dbOk \in BOOLEAN : FindYesterday(p, dbOk)
    \/ \E dbOk \in BOOLEAN : SaveStats(p, dbOk)

\* requests are served one at a time
Next ==
    \/ \E p \in Clients : Step(p)
    \/ Tick

Spec == Init /\ [][Next]_vars

(***************************************************************************)
(* Concurrent requests: every await of one handler lets the other run.     *)
(***************************************************************************)
ConcBodies ==
    { [items |-> << Item("Cafe Latte Tall", 2), Item("Plain Rice", 1) >>,
       total |-> 100, type |-> "Dine In"],
      [items |-> << Item("Sizzling Pork Sisig", 1), Item("Red Tea Milk Tea", 1) >>,
       total |-> 100, type |-> "Take Out"],
      [items |-> << >>, total |-> 100, type |-> "Dine In"] }

ConcStep(p) ==
    \/ \E body \in ConcBodies : Receive(p, body)
    \/ \E ok \in BOOLEAN : SaveOrder(p, ok)
    \/ \E dbOk \in BOOLEAN : FindToday(p, dbOk)
    \/ \E dbOk \in BOOLEAN : FindYesterday(p, dbOk)
    \/ \E dbOk \in BOOLEAN : SaveStats(p, dbOk)

ConcNext ==
    \/ \E p \in Procs : ConcStep(p)
    \/ Tick

ConcSpec == Init /\ [][ConcNext]_vars

\* the database after the first order of day 0, a "Dine In" order, has been
\* processed: every order counted so far has a counted type
RaceInit ==
    /\ store = (0 :> SeedStats(1))
    /\ orders = << SeedOrders[1].type >>
    /\ processed = 1
    /\ inserted = [d \in Days |-> IF d = 0 THEN 1 ELSE 0]
    /\ applied = [d \in Days |-> [name \in DOMAIN NameText |->
                      IF d = 0 THEN Ordered(SeedOrders[1].items, name) ELSE 0]]
    /\ clock = 0
    /\ received = 0
    /\ pc = [p \in Procs |-> "idle"]
    /\ req = [p \in Procs |-> NoReq]
    /\ savedOrder = [p \in Procs |-> 0]
    /\ today = [p \in Procs |-> 0]
    /\ loaded = [p \in Procs |-> NoDoc]
    /\ stats = [p \in Procs |-> NoDoc]
    /\ isNew = [p \in Procs |-> FALSE]
    /\ statsError = [p \in Procs |-> FALSE]
    /\ res = [p \in Procs |-> NoRes]
    /\ dash = [p \in Procs |-> NoDash]

\* concurrent requests on a day that already has its record
RaceSpec == RaceInit /\ [][ConcNext]_vars

(***************************************************************************)
(* GET /api/stats.                                                         *)
(***************************************************************************)
\* a dashboard whose default shape has the 24 zero hours of a new record
getDashboardStatsZeroHours(found) ==
    IF found = << >>
    THEN [totalOrders    |-> 0,
          totalProducts  |-> 0,
          totalStocks    |-> 0,
          ordersToday    |-> 0,
          itemsSoldToday |-> 0,
          dineInToday    |-> 0,
          takeoutToday   |-> 0,
          categoryStats  |-> [b \in Buckets |-> 0],
          hourlyStats    |-> [h \in Hours |-> 0],
          topProducts    |-> << >>]
    ELSE [totalOrders    |-> found[1].totalOrders,
          totalProducts  |-> Len(found[1].topProducts),
          totalStocks    |-> found[1].itemsSold,
          ordersToday    |-> found[1].ordersToday,
          itemsSoldToday |-> found[1].itemsSoldToday,
          dineInToday    |-> found[1].dineInOrders,
          takeoutToday   |-> found[1].takeoutOrders,
          categoryStats  |-> found[1].categoryStats,
          hourlyStats    |-> found[1].hourlyStats,
          topProducts    |-> found[1].topProducts]

\* a dashboard whose totalStocks is today's items
getDashboardStatsTodayStocks(found) ==
    IF found = << >>
    THEN [totalOrders    |-> 0,
          totalProducts  |-> 0,
          totalStocks    |-> 0,
          ordersToday    |-> 0,
          itemsSoldToday |-> 0,
          dineInToday    |-> 0,
          takeoutToday   |-> 0,
          categoryStats  |-> [b \in Buckets |-> 0],
          hourlyStats    |-> [h \in {} |-> 0],
          topProducts    |-> << >>]
    ELSE [totalOrders    |-> found[1].totalOrders,
          totalProducts  |-> Len(found[1].topProducts),
          totalStocks    |-> found[1].itemsSoldToday,
          ordersToday    |-> found[1].ordersToday,
          itemsSoldToday |-> found[1].itemsSoldToday,
          dineInToday    |-> found[1].dineInOrders,
          takeoutToday   |-> found[1].takeoutOrders,
          categoryStats  |-> found[1].categoryStats,
          hourlyStats    |-> found[1].hourlyStats,
          topProducts    |-> found[1].topProducts]

\* the object getDashboardStats returns for the result of findOne({date: today})
getDashboardStats(found) ==
    IF found = << >>
    THEN [totalOrders    |-> 0,
          totalProducts  |-> 0,
          totalStocks    |-> 0,
          ordersToday    |-> 0,
          itemsSoldToday |-> 0,
          dineInToday    |-> 0,
          takeoutToday   |-> 0,
          categoryStats  |-> [b \in Buckets |-> 0],
          hourlyStats    |-> [h \in {} |-> 0],
          topProducts    |-> << >>]
    ELSE [totalOrders    |-> found[1].totalOrders,
          totalProducts  |-> Len(found[1].topProducts),
          totalStocks    |-> found[1].itemsSold,
          ordersToday    |-> found[1].ordersToday,
          itemsSoldToday |-> found[1].itemsSoldToday,
          dineInToday    |-> found[1].dineInOrders,
          takeoutToday   |-> found[1].takeoutOrders,
          categoryStats  |-> found[1].categoryStats,
          hourlyStats    |-> found[1].hourlyStats,
          topProducts    |-> found[1].topProducts]

\* the handler of GET /api/stats: the dashboard as JSON, or 500 when the
\* query rejects
GetStats(p, dbOk) ==
    /\ pc[p] \in {"idle", "done"}
    /\ dash' = [dash EXCEPT ![p] =
                   IF dbOk
                   THEN [status |-> 200, body |-> getDashboardStats(findOne(clock))]
                   ELSE [status |-> 500]]
    /\ UNCHANGED << store, orders, clock, received, processed, pc, req, savedOrder,
                    today, loaded, stats, isNew, statsError, res, inserted, applied >>

DashBodies ==
    { [items |-> << Item("Cafe Latte Tall", 2), Item("Plain Rice", 1) >>,
       total |-> 100, type |-> "Dine In"],
      [items |-> << Item("Sizzling Pork Sisig", 2), Item("Sizzling Pork Sisig", 2) >>,
       total |-> 100, type |-> "Take Out"],
      [items |-> << Item("Plain Rice", 1) >>, total |-> 0, type |-> "Dine In"] }

DashStep(p) ==
    \/ \E body \in DashBodies : Receive(p, body)
    \/ \E ok \in BOOLEAN : SaveOrder(p, ok)
    \/ \E dbOk \in BOOLEAN : FindToday(p, dbOk)
    \/ \E dbOk \in BOOLEAN : FindYesterday(p, dbOk)
    \/ \E dbOk \in BOOLEAN : SaveStats(p, dbOk)
    \/ \E dbOk \in BOOLEAN : GetStats(p, dbOk)

\* one client posting orders and reading the dashboard, one request at a time
DashNext ==
    \/ \E p \in Clients : DashStep(p)
    \/ Tick

DashSpec == Init /\ [][DashNext]_vars

TypeOK ==
    /\ DOMAIN store \subseteq Days
    /\ clock \in Days
    /\ received \in 0..MaxOrders
    /\ \A p \in Procs : pc[p] \in {"idle", "saveOrder", "findToday", "findYesterday",
                                   "saveStats", "done"}

(***************************************************************************)
(* Properties.                                                             *)
(***************************************************************************)
\* request p completes updateStats in this step: stats.save() wrote the record
WroteStats(p) == pc[p] = "saveStats" /\ pc'[p] = "done" /\ ~statsError'[p]

\* this step's updateStats call created the day record / updated an existing one
Created(p) == WroteStats(p) /\ today[p] \notin DOMAIN store
Updated(p) == WroteStats(p) /\ today[p] \in DOMAIN store

\* a field of yesterday's record, 0 when there is no record for yesterday
Carried(d, f) == IF d - 1 \in DOMAIN store THEN store[d - 1][f] ELSE 0

\* sum of the quantities of a list of line items
TotalQuantity(items) ==
    Cardinality(UNION {{i} \X (1..items[i].quantity) : i \in DOMAIN items})

\* sum of the quantities of the line items that satisfy Test
QuantityWhere(items, Test(_)) ==
    Cardinality(UNION {{i} \X (1..items[i].quantity) : i \in {j \in DOMAIN items : Test(items[j])}})

\* the keyword rules of the specification, in their fixed order
RuleOrder == << "Rice", "Sizzling", "Party", "Drink", "Cafe", "Milk", "Frappe" >>

RuleKeywords ==
       ("Rice" :> {<<"b","u","l","g","o","g","i">>,
            <<"l","e","c","h","o","n">>,
            <<"c","h","i","c","k","e","n">>,
            <<"a","d","o","b","o">>,
            <<"s","h","a","n","g","h","a","i">>,
            <<"f","i","s","h">>,
            <<"d","o","r","y">>,
            <<"p","o","r","k">>})
    @@ ("Sizzling" :> {<<"s","i","z","z","l","i","n","g">>,
            <<"s","i","s","i","g">>,
            <<"l","i","e","m","p","o">>,
            <<"p","o","r","k","c","h","o","p">>})
    @@ ("Party" :> {<<"p","a","n","c","i","t">>,
            <<"s","p","a","g","h","e","t","t","i">>,
            <<"p","a","r","t","y">>})
    @@ ("Drink" :> {<<"l","e","m","o","n","a","d","e">>,
            <<"s","o","d","a">>})
    @@ ("Cafe" :> {<<"c","a","f","e">>,
            <<"a","m","e","r","i","c","a","n","o">>,
            <<"l","a","t","t","e">>,
            <<"m","a","c","c","h","i","a","t","o">>,
            <<"c","o","f","f","e","e">>})
    @@ ("Milk" :> {<<"m","i","l","k"," ","t","e","a">>,
            <<"m","a","t","c","h","a"," ","g","r","e","e","n"," ","t","e","a">>})
    @@ ("Frappe" :> {<<"f","r","a","p","p","e">>,
            <<"c","o","o","k","i","e","s"," ","&"," ","c","r","e","a","m">>})

RuleMatches(b, text) ==
    \/ \E kw \in RuleKeywords[b] : includes(text, kw)
    \/ /\ b = "Drink"
       /\ includes(text, <<"r","e","d"," ","t","e","a">>)
       /\ ~includes(text, <<"m","i","l","k">>)

\* the first rule that matches the lower-cased name, NoBucket when none does
FirstMatchOf(name) ==
    LET text == toLowerCase(NameText[name])
        hits == {i \in DOMAIN RuleOrder : RuleMatches(RuleOrder[i], text)}
    IN  IF hits = {} THEN NoBucket
        ELSE RuleOrder[CHOOSE i \in hits : \A j \in hits : i <= j]

\* C1: one completed updateStats call increases ordersToday of today's record
\* by exactly 1 and totalOrders by exactly 1; for a record created by the call
\* the increase is over the values it is created with (ordersToday 0,
\* totalOrders as carried from yesterday, 0 without a record for yesterday)
C1_CountsIncreaseByOne ==
    [][\A p \in Procs :
         LET d == today[p] IN
         /\ Updated(p) => /\ store'[d].ordersToday = store[d].ordersToday + 1
                          /\ store'[d].totalOrders = store[d].totalOrders + 1
         /\ Created(p) => /\ store'[d].ordersToday = 0 + 1
                          /\ store'[d].totalOrders = Carried(d, "totalOrders") + 1]_vars

\* an empty database has taken two orders on one day: the first call created
\* the record, the second updated it
C1_Witness ==
    /\ processed = 2
    /\ pc[1] = "done" /\ res[1].success /\ ~statsError[1]
    /\ \E d \in DOMAIN store : store[d].ordersToday = 2 /\ store[d].totalOrders = 2

\* C2: one completed updateStats call increases itemsSold and itemsSoldToday
\* by exactly the sum of the quantities of the payload's line items
C2_ItemsIncreaseBySum ==
    [][\A p \in Procs :
         LET d == today[p]
             n == TotalQuantity(req[p].items)
         IN
         /\ Updated(p) => /\ store'[d].itemsSold = store[d].itemsSold + n
                          /\ store'[d].itemsSoldToday = store[d].itemsSoldToday + n
         /\ Created(p) => /\ store'[d].itemsSold = Carried(d, "itemsSold") + n
                          /\ store'[d].itemsSoldToday = 0 + n]_vars

\* two orders on one day of an empty database, 3 and 4 items: 7 items sold today
C2_Witness ==
    /\ processed = 2
    /\ pc[1] = "done" /\ res[1].success /\ ~statsError[1]
    /\ \E d \in DOMAIN store : store[d].itemsSoldToday = 7 /\ store[d].itemsSold = 7

\* C3: in every persisted stats record topProducts has at most 10 entries and
\* no entry has a larger quantity than an entry before it
C3_TopProductsBoundedSorted ==
    \A d \in DOMAIN store :
        LET tp == store[d].topProducts IN
        /\ Len(tp) <= 10
        /\ \A i, j \in DOMAIN tp : i < j => tp[i].quantity >= tp[j].quantity

\* a full list took a product that was not in it: the new product is first,
\* the list was cut back to 10
C3_Witness ==
    \E d \in DOMAIN store :
        LET tp == store[d].topProducts IN
        /\ Len(tp) = 10
        /\ tp[1].name = "Sizzling Pork Sisig"
        /\ \A i \in DOMAIN tp : tp[i].name # "Porkchop"

\* C4: with no record for today and yesterday's record at totalOrders = n,
\* the first updateStats call of today creates a record with totalOrders = n + 1,
\* ordersToday = 1 and itemsSoldToday equal to this order's item quantities
C4_FirstOrderOfDay ==
    [][\A p \in Procs :
         LET d == today[p] IN
         (Created(p) /\ d - 1 \in DOMAIN store) =>
             /\ store'[d].totalOrders = store[d - 1].totalOrders + 1
             /\ store'[d].ordersToday = 1
             /\ store'[d].itemsSoldToday = TotalQuantity(req[p].items)]_vars

\* yesterday's record has totalOrders = 5, today's first order made it 6
C4_Witness ==
    /\ 0 \in DOMAIN store /\ 1 \in DOMAIN store
    /\ store[0].totalOrders = 5
    /\ store[1].totalOrders = 6 /\ store[1].ordersToday = 1
    /\ store[1].itemsSoldToday = 3

\* C5: totalOrders never resets: after any sequence of updateStats calls on
\* non-decreasing days, days without an order included, totalOrders of the
\* most recent day's record equals the number of orders processed so far
C5_TotalOrdersNeverResets ==
    \A d \in DOMAIN store :
        (\A e \in DOMAIN store : e <= d) => store[d].totalOrders = processed

\* C6 as claimed: hourlyStats is carried forward, the first order of a new day
\* yields yesterday's hourlyStats plus 1 for the hour of this order
C6_HourlyStatsCarriedForward ==
    [][\A p \in Procs :
         LET d == today[p] IN
         (Created(p) /\ d - 1 \in DOMAIN store) =>
             \E hour \in Hours : \A h \in Hours :
                 store'[d].hourlyStats[h] =
                     store[d - 1].hourlyStats[h] + (IF h = hour THEN 1 ELSE 0)]_vars

\* C6, amended: hourlyStats is not carried forward; a record created by the
\* first order of a day starts every hour at 0 whatever yesterday's record
\* holds, so it has 1 at the hour of this order and 0 at every other hour
C6_HourlyStatsStartAtZero ==
    [][\A p \in Procs :
         LET d == today[p] IN
         Created(p) =>
             \E hour \in Hours : \A h \in Hours :
                 store'[d].hourlyStats[h] = (IF h = hour THEN 1 ELSE 0)]_vars

\* yesterday's five orders came at 9; today's first order came at 14 and
\* today's record has nothing at 9
C6_Witness ==
    /\ 0 \in DOMAIN store /\ 1 \in DOMAIN store
    /\ store[0].hourlyStats[9] = 5
    /\ store[1].ordersToday = 1
    /\ store[1].hourlyStats[14] = 1 /\ store[1].hourlyStats[9] = 0

\* the products of a list of line items with the quantity each has in it
NamesOf(items) == {items[i].name : i \in DOMAIN items}
QuantityOf(items, name) ==
    Cardinality(UNION {{i} \X (1..items[i].quantity) :
                          i \in {j \in DOMAIN items : items[j].name = name}})

\* C7 as claimed: topProducts is carried forward, the first order of a new
\* day yields yesterday's list with this order's items upserted, re-sorted
\* and truncated to 10
C7_TopProductsCarriedForward ==
    [][\A p \in Procs :
         LET d == today[p] IN
         (Created(p) /\ d - 1 \in DOMAIN store) =>
             store'[d].topProducts =
                 Slice(SortDesc(UpsertProducts(store[d - 1].topProducts, req[p].items)))]_vars

\* C7, amended: topProducts is not carried forward; a record created by the
\* first order of a day lists this order's products only, each with the
\* quantity it has in this order (all of them when the order has at most 10
\* products), and nothing of yesterday's list
C7_TopProductsStartEmpty ==
    [][\A p \in Procs :
         LET d  == today[p]
             tp == store'[d].topProducts
         IN
         Created(p) =>
             /\ \A i \in DOMAIN tp :
                    /\ tp[i].name \in NamesOf(req[p].items)
                    /\ tp[i].quantity = QuantityOf(req[p].items, tp[i].name)
             /\ \A i, j \in DOMAIN tp : tp[i].name = tp[j].name => i = j
             /\ Cardinality(NamesOf(req[p].items)) <= 10 =>
                    \A n \in NamesOf(req[p].items) : \E i \in DOMAIN tp : tp[i].name = n]_vars

\* yesterday's list is full; today's record, created by an order for two
\* products, lists those two
C7_Witness ==
    /\ 0 \in DOMAIN store /\ 1 \in DOMAIN store
    /\ Len(store[0].topProducts) = 10
    /\ store[1].ordersToday = 1
    /\ Len(store[1].topProducts) = 2
    /\ store[1].topProducts[1].name = "Cafe Latte Tall"

FirstMatch == [name \in DOMAIN NameText |-> FirstMatchOf(name)]

\* the category counter of bucket b before this step's updateStats call:
\* of today's record, else carried from yesterday's, else 0
CategoryBefore(d, b) ==
    IF d \in DOMAIN store THEN store[d].categoryStats[b]
    ELSE IF d - 1 \in DOMAIN store THEN store[d - 1].categoryStats[b]
    ELSE 0

\* C8: each line item adds its quantity to exactly one bucket, the first
\* whose keyword rule matches its lower-cased name in the order Rice,
\* Sizzling, Party, Drink, Cafe, Milk, Frappe, and to no bucket when no rule
\* matches; "Sizzling Pork Sisig" is counted in Rice and not in Sizzling.
\* Every name of the menu is classified by the code as by the rules.
C8_FirstMatchingRuleWins ==
    [][/\ \A name \in DOMAIN NameText : Category[name] = FirstMatch[name]
       /\ FirstMatch["Sizzling Pork Sisig"] = "Rice"
       /\ \A p \in Procs :
         LET d     == today[p]
             items == req[p].items
             InBucket(b) == LET Test(item) == FirstMatch[item.name] = b
                            IN  QuantityWhere(items, Test)
             Sisig(item) == item.name = "Sizzling Pork Sisig"
         IN
         WroteStats(p) =>
             /\ \A b \in Buckets :
                    store'[d].categoryStats[b] = CategoryBefore(d, b) + InBucket(b)
             /\ store'[d].categoryStats["Rice"] - CategoryBefore(d, "Rice")
                    >= QuantityWhere(items, Sisig)
             /\ (\A i \in DOMAIN items : Sisig(items[i])) =>
                    store'[d].categoryStats["Sizzling"] = CategoryBefore(d, "Sizzling")]_vars

\* the first order of an empty database was for 4 Sizzling Pork Sisig:
\* Rice has 4 and Sizzling has none
C8_Witness ==
    /\ processed = 1
    /\ \E d \in DOMAIN store :
          /\ store[d].categoryStats["Rice"] = 4
          /\ store[d].categoryStats["Sizzling"] = 0
          /\ store[d].topProducts[1].name = "Sizzling Pork Sisig"

\* the order of the scenario: 2 Cafe Latte Tall and 1 Plain Rice, "Dine In"
ScenarioItems == << Item("Cafe Latte Tall", 2), Item("Plain Rice", 1) >>
IsScenario(p) ==
    WroteStats(p) /\ req[p].items = ScenarioItems /\ req[p].type = "Dine In"

\* a field of the record for day d before this step's updateStats call: of
\* today's record, else as the new record starts (carried or 0)
FieldBefore(d, f, carried) ==
    IF d \in DOMAIN store THEN store[d][f]
    ELSE IF carried THEN Carried(d, f) ELSE 0

\* the quantity listed for a product in a topProducts list, 0 when not listed
Listed(tp, name) ==
    IF \E i \in DOMAIN tp : tp[i].name = name
    THEN (CHOOSE e \in {tp[i] : i \in DOMAIN tp} : e.name = name).quantity
    ELSE 0
IsListed(tp, name) == \E i \in DOMAIN tp : tp[i].name = name

\* C9 as claimed: the scenario order increases itemsSoldToday by 3,
\* dineInOrders by 1, categoryStats.Cafe by 2 and categoryStats.Rice by 1,
\* and topProducts holds both names afterwards
C9_ScenarioAsClaimed ==
    [][\A p \in Procs :
         LET d == today[p] IN
         IsScenario(p) =>
             /\ store'[d].itemsSoldToday = FieldBefore(d, "itemsSoldToday", FALSE) + 3
             /\ store'[d].dineInOrders = FieldBefore(d, "dineInOrders", TRUE) + 1
             /\ store'[d].categoryStats["Cafe"] = CategoryBefore(d, "Cafe") + 2
             /\ store'[d].categoryStats["Rice"] = CategoryBefore(d, "Rice") + 1
             /\ IsListed(store'[d].topProducts, "Cafe Latte Tall")
             /\ IsListed(store'[d].topProducts, "Plain Rice")]_vars

\* C9, amended: the scenario order increases itemsSoldToday by 3,
\* dineInOrders by 1 and categoryStats.Cafe by 2 and leaves categoryStats.Rice
\* and every other bucket unchanged ("Plain Rice" matches no keyword rule);
\* both names are upserted into topProducts (2 and 1 added to the quantities
\* listed before), and each is listed afterwards unless 10 entries with a
\* quantity at least as large are
C9_ScenarioAmended ==
    [][\A p \in Procs :
         LET d      == today[p]
             before == IF d \in DOMAIN store THEN store[d].topProducts ELSE << >>
             after  == store'[d].topProducts
             Kept(name, q) ==
                 \/ Listed(after, name) = Listed(before, name) + q
                 \/ /\ ~IsListed(after, name)
                    /\ Len(after) = 10
                    /\ \A i \in DOMAIN after :
                           after[i].quantity >= Listed(before, name) + q
         IN
         IsScenario(p) =>
             /\ store'[d].itemsSoldToday = FieldBefore(d, "itemsSoldToday", FALSE) + 3
             /\ store'[d].dineInOrders = FieldBefore(d, "dineInOrders", TRUE) + 1
             /\ store'[d].categoryStats["Cafe"] = CategoryBefore(d, "Cafe") + 2
             /\ \A b \in Buckets \ {"Cafe"} :
                    store'[d].categoryStats[b] = CategoryBefore(d, b)
             /\ Kept("Cafe Latte Tall", 2)
             /\ Kept("Plain Rice", 1)]_vars

\* the scenario order was the first of an empty database
C9_Witness ==
    /\ processed = 1
    /\ \E d \in DOMAIN store :
          /\ store[d].itemsSoldToday = 3
          /\ store[d].dineInOrders = 1
          /\ store[d].categoryStats["Cafe"] = 2
          /\ store[d].categoryStats["Rice"] = 0
          /\ Len(store[d].topProducts) = 2

\* C10: a stats-update failure never fails the order: once the order record
\* is saved the response is the success response with the saved order's id,
\* whether updateStats succeeded or threw, and the saved order stays stored
C10_StatsFailureIsolated ==
    \A p \in Procs :
        savedOrder[p] # 0 =>
            /\ savedOrder[p] \in DOMAIN orders
            /\ pc[p] = "done" =>
                   /\ res[p].status = 200
                   /\ res[p].success
                   /\ res[p].orderId = savedOrder[p]

\* updateStats threw after the order was saved; the response is success
C10_Witness ==
    /\ pc[1] = "done"
    /\ statsError[1]
    /\ savedOrder[1] \in DOMAIN orders
    /\ res[1].success

\* C11: in every reachable state, also when several first orders of a day
\* run updateStats concurrently and each finds no record for today, at most
\* one stats document exists per day key, and it is the stored record.
C11_OneRecordPerDay ==
    \A d \in Days :
        /\ inserted[d] <= 1
        /\ (d \in DOMAIN store) <=> (inserted[d] = 1)

\* two concurrent first orders of a day both found no record: the first
\* has inserted the day's record, the second holds a new document for the
\* same day and is about to save it
C11_Witness ==
    \E p, q \in Procs :
        /\ pc[p] = "done" /\ res[p].status = 200 /\ ~statsError[p]
        /\ pc[q] = "saveStats" /\ isNew[q]
        /\ today[q] \in DOMAIN store
        /\ store[today[q]].ordersToday = 1
        /\ inserted[today[q]] = 1

\* GET /api/stats of client p is answered in this step
Answered(p) == dash'[p] # dash[p] /\ dash'[p] # NoDash

\* C12: getDashboardStats with no record for today returns the all-zero
\* default shape (every counter 0, every category bucket 0, empty hourlyStats,
\* empty topProducts), and the request creates no record and leaves every
\* stored record and order as it was.  The only other answer is the 500 of a
\* rejected query.
C12_DefaultsWithoutRecord ==
    [][\A p \in Clients :
          Answered(p) /\ clock \notin DOMAIN store =>
              /\ dash'[p].status \in {200, 500}
              /\ dash'[p].status = 200 =>
                    /\ \A f \in {"totalOrders", "totalProducts", "totalStocks",
                                  "ordersToday", "itemsSoldToday", "dineInToday",
                                  "takeoutToday"} : dash'[p].body[f] = 0
                    /\ DOMAIN dash'[p].body.categoryStats = Buckets
                    /\ \A b \in Buckets : dash'[p].body.categoryStats[b] = 0
                    /\ DOMAIN dash'[p].body.hourlyStats = {}
                    /\ dash'[p].body.topProducts = << >>
              /\ store' = store
              /\ inserted' = inserted
              /\ orders' = orders]_vars

\* the dashboard was read on a day without a record while an earlier day
\* has one, and the store still has no record for the day
C12_Witness ==
    /\ dash[1].status = 200
    /\ dash[1].body.totalOrders = 0
    /\ DOMAIN dash[1].body.hourlyStats = {}
    /\ clock \notin DOMAIN store
    /\ clock - 1 \in DOMAIN store
    /\ inserted[clock] = 0

\* C13: with a record for today, getDashboardStats returns totalProducts =
\* the number of entries of topProducts, totalStocks = the cumulative
\* itemsSold, dineInToday / takeoutToday = the cumulative dineInOrders /
\* takeoutOrders, and totalOrders, ordersToday, itemsSoldToday as stored.
C13_DashboardProjection ==
    [][\A p \in Clients :
          Answered(p) /\ dash'[p].status = 200 /\ clock \in DOMAIN store =>
              LET body == dash'[p].body
                  rec  == store[clock]
              IN  /\ body.totalProducts = Len(rec.topProducts)
                  /\ body.totalStocks = rec.itemsSold
                  /\ body.dineInToday = rec.dineInOrders
                  /\ body.takeoutToday = rec.takeoutOrders
                  /\ body.totalOrders = rec.totalOrders
                  /\ body.ordersToday = rec.ordersToday
                  /\ body.itemsSoldToday = rec.itemsSoldToday]_vars

\* the dashboard of a second day: the "today" type counters and totalStocks
\* exceed what the day itself received
C13_Witness ==
    /\ dash[1].status = 200
    /\ clock \in DOMAIN store
    /\ dash[1].body.ordersToday = 1
    /\ dash[1].body.dineInToday + dash[1].body.takeoutToday > 1
    /\ dash[1].body.totalStocks > dash[1].body.itemsSoldToday
    /\ dash[1].body.totalProducts = Len(store[clock].topProducts)
    /\ dash[1].body.dineInToday = store[clock].dineInOrders

\* a payload as updateStats would get it from a caller that sets no type
UntypedOrder ==
    [items |-> << Item("Sizzling Pork Sisig", 1), Item("Red Tea Milk Tea", 1) >>,
     total |-> 100]

\* C14: one updateStats call adds 1 to dineInOrders and leaves takeoutOrders
\* alone for type "Dine In", adds 1 to takeoutOrders and leaves dineInOrders
\* alone for type "Take Out", and leaves both alone for any other type and
\* for a payload without a type.
C14_TypeCounters ==
    [][/\ \A p \in Procs :
            WroteStats(p) =>
                LET d    == today[p]
                    dine == FieldBefore(d, "dineInOrders", TRUE)
                    take == FieldBefore(d, "takeoutOrders", TRUE)
                IN  /\ req[p].type = "Dine In" =>
                        store'[d].dineInOrders = dine + 1 /\ store'[d].takeoutOrders = take
                    /\ req[p].type = "Take Out" =>
                        store'[d].dineInOrders = dine /\ store'[d].takeoutOrders = take + 1
                    /\ req[p].type \notin {"Dine In", "Take Out"} =>
                        store'[d].dineInOrders = dine /\ store'[d].takeoutOrders = take
       /\ \A p \in Procs :
            WroteStats(p) =>
                LET rec   == store'[today[p]]
                    after == ApplyOrder(rec, UntypedOrder, 9)
                IN  /\ after.dineInOrders = rec.dineInOrders
                    /\ after.takeoutOrders = rec.takeoutOrders
                    /\ after.ordersToday = rec.ordersToday + 1]_vars

\* after the five seeded orders (2 dine-in, 2 take-out, 1 delivery) the day
\* took a "Delivery" and a "Take Out" order
C14_Witness ==
    /\ 0 \in DOMAIN store
    /\ store[0].ordersToday = 7
    /\ store[0].dineInOrders = 2
    /\ store[0].takeoutOrders = 3
    /\ \E k \in DOMAIN orders : k > Len(SeedOrders) /\ orders[k] = "Delivery"

\* the updateStats call of request p fails in this step
FailedStats(p) == statsError'[p] /\ ~statsError[p]

\* C15: the store changes only in the last step of an updateStats call, that
\* step writes the record of the call's day and no other, and a call that
\* fails (a malformed line item, a rejected query or save) leaves every
\* stored record exactly as it was.
C15_SingleWriteLast ==
    [][/\ store' # store =>
            \E p \in Procs :
                /\ WroteStats(p)
                /\ processed' = processed + 1
                /\ DOMAIN store' = DOMAIN store \cup {today[p]}
                /\ \A d \in DOMAIN store : d # today[p] => store'[d] = store[d]
       /\ \A p \in Procs : FailedStats(p) => store' = store /\ processed' = processed
       /\ \A p \in Procs : pc[p] # "saveStats" /\ pc'[p] # pc[p] => store' = store]_vars

\* an order was saved after the five seeded ones, its updateStats call
\* failed, and the day's record is still the seeded one
C15_Witness ==
    /\ pc[1] = "done" /\ statsError[1] /\ res[1].success
    /\ Len(orders) = Len(SeedOrders) + 1
    /\ store = SeedStore
    /\ processed = Len(SeedOrders)

\* request q ends its updateStats call in this step with a document it
\* loaded before another call wrote the day's record
RacingSave(q) == pc[q] = "saveStats" /\ pc'[q] = "done" /\ Stale(q)

\* C16: two updateStats calls for one day can race.  A call that read the
\* record before another call's write saves its own copy: the write is
\* refused, or it stores the counts it read plus 1 and does not add to the
\* stored ones, so totalOrders and ordersToday do not rise above what the
\* other write left and of the two orders one is lost.
C16_StaleSaveLosesIncrement ==
    [][\A q \in Procs :
          RacingSave(q) =>
              LET d == today[q] IN
              /\ \/ store'[d] = store[d]
                 \/ /\ store'[d].totalOrders = loaded[q].totalOrders + 1
                    /\ store'[d].ordersToday = loaded[q].ordersToday + 1
              /\ store[d].totalOrders > loaded[q].totalOrders =>
                    /\ store'[d].totalOrders <= store[d].totalOrders
                    /\ store'[d].ordersToday <= store[d].ordersToday]_vars

\* two requests saved their orders (7 are stored) and both read the seeded
\* record (5 orders) before either wrote: the first has written 6, the
\* second holds its own copy with 6 and is about to save it
C16_Witness ==
    \E p, q \in Procs :
        /\ pc[p] = "done" /\ res[p].success /\ ~statsError[p]
        /\ pc[q] = "saveStats" /\ today[q] = 0
        /\ Len(orders) = Len(SeedOrders) + 2
        /\ loaded[q] = SeedStore[0]
        /\ stats[q].totalOrders = Len(SeedOrders) + 1
        /\ store[0].totalOrders = Len(SeedOrders) + 1
        /\ store[0].ordersToday = Len(SeedOrders) + 1

\* positions of a request inside Stats.updateStats
InUpdateStats == {"findToday", "findYesterday", "saveStats"}

\* the handler of request p calls Stats.updateStats in this step
Invoked(p) == pc[p] \notin InUpdateStats /\ pc'[p] \in InUpdateStats

\* C17: within POST /api/orders, updateStats is called only once the order
\* has been saved and runs before the response is sent; a request rejected
\* for missing items or total, or whose order.save() fails, never changes a
\* stats record; each saved order starts exactly one updateStats call and
\* the records are written at most once per saved order.
C17_StatsAfterSaveBeforeResponse ==
    [][/\ \A p \in Procs :
            /\ Invoked(p) => /\ pc[p] = "saveOrder"
                              /\ orders' = Append(orders, req[p].type)
                              /\ savedOrder'[p] = Len(orders')
            /\ pc[p] \in InUpdateStats => /\ res[p] = NoRes
                                           /\ savedOrder[p] \in DOMAIN orders
            /\ pc[p] \in {"idle", "done"} =>
                  /\ pc'[p] \in {pc[p], "done", "saveOrder"}
                  /\ res'[p] # res[p] => res'[p].status \in {0, 400}
            /\ pc[p] = "saveOrder" /\ pc'[p] = "done" =>
                  /\ res'[p].status = 500
                  /\ store' = store /\ orders' = orders
            /\ pc[p] \in InUpdateStats /\ pc'[p] = "done" => res'[p].status = 200
       /\ received' # received => store' = store /\ orders' = orders
       /\ Len(orders') = Len(orders) + Cardinality({p \in Procs : Invoked(p)})
       /\ processed <= Len(orders)]_vars

\* after the five seeded orders one order was saved and counted, the next
\* one failed to save: it is answered 500 and the record still counts 6
C17_Witness ==
    /\ received = 2
    /\ pc[1] = "done" /\ res[1].status = 500
    /\ Len(orders) = Len(SeedOrders) + 1
    /\ processed = Len(SeedOrders) + 1
    /\ store[0].totalOrders = Len(SeedOrders) + 1

\* C18: within one day's record the quantity listed for a product in
\* topProducts is its cumulative total, the sum of its quantities over every
\* order applied to the record, also over the orders applied while the
\* product was outside the 10 retained entries.
C18_ListedIsCumulative ==
    \A d \in DOMAIN store :
        \A i \in DOMAIN store[d].topProducts :
            store[d].topProducts[i].quantity = applied[d][store[d].topProducts[i].name]

\* C19: within one day's record topProducts holds the highest-quantity
\* products: no product missing from the list has a total ordered quantity,
\* over the orders applied to the record, greater than that of a listed one.
C19_ListHoldsHighest ==
    \A d \in DOMAIN store :
        \A name \in DOMAIN NameText :
            ~IsListed(store[d].topProducts, name) =>
                \A i \in DOMAIN store[d].topProducts :
                    applied[d][name] <= applied[d][store[d].topProducts[i].name]

\* the sum of a record's hourlyStats over hours 0..23
HourlySum(rec) ==
    Cardinality(UNION {{h} \X (1..rec.hourlyStats[h]) : h \in Hours})

\* C20: with requests served one at a time, in every stored record the sum
\* of hourlyStats over hours 0..23 equals ordersToday.
C20_HourlySumIsOrdersToday ==
    \A d \in DOMAIN store : HourlySum(store[d]) = store[d].ordersToday

\* a day that follows a day with a record took two orders in different hours
C20_Witness ==
    \E d \in DOMAIN store :
        /\ d - 1 \in DOMAIN store
        /\ store[d - 1].hourlyStats[9] > 0
        /\ store[d].ordersToday = 2
        /\ store[d].hourlyStats[9] = 1
        /\ store[d].hourlyStats[14] = 1

C22_TopProductNamesDistinct ==
    \A d \in DOMAIN store :
        \A i, j \in DOMAIN store[d].topProducts :
            store[d].topProducts[i].name = store[d].topProducts[j].name => i = j

\* the first order of a day listed "Sizzling Pork Sisig" in two lines of 2:
\* the record has one entry for it with quantity 4
C22_Witness ==
    \E d \in DOMAIN store :
        /\ store[d].ordersToday = 1
        /\ store[d].topProducts =
              << [name |-> "Sizzling Pork Sisig", quantity |-> 4] >>

(***************************************************************************)
(* Orders told apart by their items: the two bodies without a usable type  *)
(* are the only ones with these item lists.                                *)
(***************************************************************************)
EmptyTypeOrder ==
    [items |-> << Item("Plain Rice", 1) >>, total |-> 100, type |-> ""]

TypeBodies ==
    { UntypedOrder,
      EmptyTypeOrder,
      [items |-> << Item("Cafe Latte Tall", 2), Item("Plain Rice", 1) >>,
       total |-> 100, type |-> "Dine In"],
      [items |-> << Item("Sizzling Pork Sisig", 2), Item("Sizzling Pork Sisig", 2) >>,
       total |-> 100, type |-> "Take Out"],
      [items |-> << Item("Sizzling Pork Sisig", 2), Item("Sizzling Pork Sisig", 2) >>,
       total |-> 100, type |-> "Delivery"],
      [items |-> << [quantity |-> 1] >>, total |-> 100],
      [items |-> << >>, total |-> 100] }

TypeStep(p) ==
    \/ \E body \in TypeBodies : Receive(p, body)
    \/ \E ok \in BOOLEAN : SaveOrder(p, ok)
    \/ \E dbOk \in BOOLEAN : FindToday(p, dbOk)
    \/ \E dbOk \in BOOLEAN : FindYesterday(p, dbOk)
    \/ \E dbOk \in BOOLEAN : SaveStats(p, dbOk)

TypeNext ==
    \/ \E p \in Clients : TypeStep(p)
    \/ Tick

TypeSpec == Init /\ [][TypeNext]_vars

\* the order in hand was submitted without a usable type
SentUntyped(orderData) ==
    orderData.items \in {UntypedOrder.items, EmptyTypeOrder.items}

\* dineInOrders + takeoutOrders of today's record before this step's
\* updateStats call, as a new record starts them
TypedBefore(d) ==
    FieldBefore(d, "dineInOrders", TRUE) + FieldBefore(d, "takeoutOrders", TRUE)

====
